---- MODULE Spec2Model ----
(***************************************************************************)
(* Model of mcp_accessibility_models: helpers.py (the SSR code validator,  *)
(* the SSR description lookup and the three accessibility extractors) and  *)
(* models.py (the three record classes).                                   *)
(*                                                                         *)
(* Python values are tagged records:                                       *)
(*   None          [t |-> "none"]                                          *)
(*   bool          [t |-> "bool", v |-> TRUE]                              *)
(*   int           [t |-> "int",  v |-> 53]                                *)
(*   str           [t |-> "str",  v |-> "wchr"]                            *)
(*   list          [t |-> "list", v |-> <<e1, e2>>]                        *)
(*   tuple         [t |-> "tuple", v |-> <<e1, e2>>]                       *)
(*   dict          [t |-> "dict", v |-> << <<"key", value>>, ... >>]       *)
(* (a dict keeps its insertion order, as in Python; keys are str).         *)
(* The outcome of a call is [k |-> "return", val |-> value] or             *)
(* [k |-> "raise", exc |-> class name, msg |-> message].                   *)
(***************************************************************************)
EXTENDS Integers, Sequences, FiniteSets, TLC

VARIABLES SSR_CODE_DESCRIPTIONS, VALID_SSR_CODES, call, result

vars == <<SSR_CODE_DESCRIPTIONS, VALID_SSR_CODES, call, result>>

(***************************************************************************)
(* Bounds of the model.                                                    *)
(***************************************************************************)
MaxCodes == 3
MaxAmenities == 3
MaxFacilities == 2
MaxPricings == 2
MaxSupplied == 2

(***************************************************************************)
(* Python values.                                                          *)
(***************************************************************************)
PyNone == [t |-> "none"]
PyBool(b) == [t |-> "bool", v |-> b]
PyInt(n) == [t |-> "int", v |-> n]
PyStr(s) == [t |-> "str", v |-> s]
PyList(q) == [t |-> "list", v |-> q]
PyTuple(q) == [t |-> "tuple", v |-> q]
PyDict(q) == [t |-> "dict", v |-> q]

Return(x) == [k |-> "return", val |-> x]
Raise(e, m) == [k |-> "raise", exc |-> e, msg |-> m]

\* All sequences over S of length at most n.
SeqUpTo(S, n) == UNION {[1..m -> S] : m \in 0..n}

(***************************************************************************)
(* str operations.                                                         *)
(***************************************************************************)
Ch(s, i) == SubSeq(s, i, i)

Lowers == "abcdefghijklmnopqrstuvwxyz"
Uppers == "ABCDEFGHIJKLMNOPQRSTUVWXYZ"
\* The characters the model uses, in code point order.
Ascii == " '(),-0123456789:<>ABCDEFGHIJKLMNOPQRSTUVWXYZ[]abcdefghijklmnopqrstuvwxyz{}"

\* The position of character c in alphabet, 0 when it is not there.
IndexIn(c, alphabet) ==
  LET at == {i \in 1..Len(alphabet) : Ch(alphabet, i) = c}
  IN IF at = {} THEN 0 ELSE CHOOSE i \in at : TRUE

upper_char(c) == LET i == IndexIn(c, Lowers) IN IF i > 0 THEN Ch(Uppers, i) ELSE c
lower_char(c) == LET i == IndexIn(c, Uppers) IN IF i > 0 THEN Ch(Lowers, i) ELSE c

RECURSIVE upper(_)
upper(s) == IF Len(s) = 0 THEN "" ELSE upper_char(Ch(s, 1)) \o upper(Tail(s))

RECURSIVE lower(_)
lower(s) == IF Len(s) = 0 THEN "" ELSE lower_char(Ch(s, 1)) \o lower(Tail(s))

\* sub in s
contains(s, sub) ==
  \E i \in 1..(Len(s) - Len(sub) + 1) : SubSeq(s, i, i + Len(sub) - 1) = sub

\* a < b as Python compares str: by code point, a proper prefix first.
RECURSIVE str_lt(_, _)
str_lt(a, b) ==
  IF Len(b) = 0 THEN FALSE
  ELSE IF Len(a) = 0 THEN TRUE
  ELSE IF Ch(a, 1) = Ch(b, 1) THEN str_lt(Tail(a), Tail(b))
  ELSE IndexIn(Ch(a, 1), Ascii) < IndexIn(Ch(b, 1), Ascii)

RECURSIVE sorted(_)
sorted(S) ==
  IF S = {} THEN <<>>
  ELSE LET m == CHOOSE x \in S : \A y \in S : y = x \/ str_lt(x, y)
       IN <<m>> \o sorted(S \ {m})

RECURSIVE join(_, _)
join(sep, q) ==
  IF Len(q) = 0 THEN ""
  ELSE IF Len(q) = 1 THEN q[1]
  ELSE q[1] \o sep \o join(sep, Tail(q))

\* type(x) as an f-string prints it
type_name(x) ==
  CASE x.t = "none" -> "<class 'NoneType'>"
    [] x.t = "bool" -> "<class 'bool'>"
    [] x.t = "int" -> "<class 'int'>"
    [] x.t = "str" -> "<class 'str'>"
    [] x.t = "list" -> "<class 'list'>"
    [] x.t = "tuple" -> "<class 'tuple'>"
    [] x.t = "dict" -> "<class 'dict'>"

(***************************************************************************)
(* dict operations.                                                        *)
(***************************************************************************)
keys(d) == [i \in 1..Len(d.v) |-> d.v[i][1]]
has_key(d, key) == \E i \in 1..Len(d.v) : d.v[i][1] = key
getitem(d, key) == d.v[CHOOSE i \in 1..Len(d.v) : d.v[i][1] = key][2]
\* d.get(key, default)
get(d, key, default) == IF has_key(d, key) THEN getitem(d, key) ELSE default
Range(q) == {q[i] : i \in 1..Len(q)}

(***************************************************************************)
(* Built-ins the extractors use: iteration, truth value, ==, str().        *)
(***************************************************************************)
class_name(x) ==
  CASE x.t = "none" -> "NoneType"
    [] x.t = "bool" -> "bool"
    [] x.t = "int" -> "int"
    [] x.t = "str" -> "str"
    [] x.t = "list" -> "list"
    [] x.t = "tuple" -> "tuple"
    [] x.t = "dict" -> "dict"

\* for e in x: raises TypeError unless x is one of these
iterable(x) == x.t \in {"list", "tuple", "str", "dict"}

\* The elements a for loop over x visits: the items of a list or tuple, the
\* characters of a str, the keys of a dict.
iter_items(x) ==
  CASE x.t \in {"list", "tuple"} -> x.v
    [] x.t = "str" -> [i \in 1..Len(x.v) |-> PyStr(Ch(x.v, i))]
    [] x.t = "dict" -> [i \in 1..Len(x.v) |-> PyStr(x.v[i][1])]

\* if x:
truthy(x) ==
  CASE x.t = "none" -> FALSE
    [] x.t = "bool" -> x.v
    [] x.t = "int" -> x.v # 0
    [] x.t \in {"str", "list", "tuple", "dict"} -> Len(x.v) > 0

\* a == b: bool and int compare as numbers, anything else by type and value.
py_eq(a, b) ==
  LET num(x) == IF x.t = "bool" THEN (IF x.v THEN 1 ELSE 0) ELSE x.v
  IN IF a.t \in {"bool", "int"} /\ b.t \in {"bool", "int"}
     THEN num(a) = num(b)
     ELSE a = b

Digits == "0123456789"
RECURSIVE int_str(_)
int_str(n) ==
  IF n < 0 THEN "-" \o int_str(0 - n)
  ELSE IF n < 10 THEN Ch(Digits, n + 1)
  ELSE int_str(n \div 10) \o Ch(Digits, (n % 10) + 1)

RECURSIVE py_repr(_)
py_repr(x) ==
  CASE x.t = "none" -> "None"
    [] x.t = "bool" -> (IF x.v THEN "True" ELSE "False")
    [] x.t = "int" -> int_str(x.v)
    [] x.t = "str" -> "'" \o x.v \o "'"
    [] x.t = "list" -> "[" \o join(", ", [i \in 1..Len(x.v) |-> py_repr(x.v[i])]) \o "]"
    [] x.t = "tuple" ->
         "(" \o join(", ", [i \in 1..Len(x.v) |-> py_repr(x.v[i])])
             \o (IF Len(x.v) = 1 THEN "," ELSE "") \o ")"
    [] x.t = "dict" ->
         "{" \o join(", ", [i \in 1..Len(x.v) |->
                               "'" \o x.v[i][1] \o "': " \o py_repr(x.v[i][2])]) \o "}"

\* str(x)
py_str(x) == IF x.t = "str" THEN x.v ELSE py_repr(x)

(***************************************************************************)
(* IATA SSR code reference, helpers.py lines 10-19.                        *)
(***************************************************************************)
InitialDescriptions ==
  PyDict(<< <<"WCHR", PyStr("Wheelchair assistance (passenger provides own wheelchair)")>>,
            <<"WCHS", PyStr("Wheelchair with stowage (wheelchair stowed in cargo hold)")>>,
            <<"STCR", PyStr("Stretcher case (medical requirement for stretcher accommodation)")>>,
            <<"DEAF", PyStr("Deaf passenger (visual alerts, no audio announcements)")>>,
            <<"BLND", PyStr("Blind passenger (audio assistance, guide dog accommodation)")>>,
            <<"PRMK", PyStr("Passenger with mobility disability (priority seating, extra assistance)")>> >>)

(***************************************************************************)
(* validate_ssr_codes, helpers.py lines 142-173.                           *)
(***************************************************************************)
\* A slip in lines 167-169: the message names the uppercased code.
invalid_code_message_upper(code, valid) ==
  "Invalid SSR code '" \o upper(code) \o "'. Valid codes: " \o join(", ", sorted(valid))

\* Lines 167-169 and 190-192.
invalid_code_message(code, valid) ==
  "Invalid SSR code '" \o code \o "'. Valid codes: " \o join(", ", sorted(valid))

\* A slip in line 171: the code is appended as it was given.
RECURSIVE validate_loop_as_given(_, _, _)
validate_loop_as_given(rest, validated, valid) ==
  IF Len(rest) = 0 THEN Return(PyList(validated))
  ELSE LET code == Head(rest) IN
       IF code.t # "str"
       THEN Raise("ValueError", "SSR code must be string, got " \o type_name(code))
       ELSE LET code_upper == upper(code.v) IN
            IF code_upper \notin valid
            THEN Raise("ValueError", invalid_code_message(code.v, valid))
            ELSE validate_loop_as_given(Tail(rest), Append(validated, PyStr(code.v)), valid)

\* A slip in lines 161-169: the types of all elements are checked before any
\* membership.
RECURSIVE validate_loop_types_first(_, _, _)
validate_loop_types_first(rest, validated, valid) ==
  IF Len(rest) = 0 THEN Return(PyList(validated))
  ELSE IF \E i \in 1..Len(rest) : rest[i].t # "str"
  THEN LET first == CHOOSE i \in 1..Len(rest) :
                      rest[i].t # "str" /\ \A j \in 1..(i - 1) : rest[j].t = "str"
       IN Raise("ValueError", "SSR code must be string, got " \o type_name(rest[first]))
  ELSE LET code_upper == upper(Head(rest).v) IN
       IF code_upper \notin valid
       THEN Raise("ValueError", invalid_code_message(Head(rest).v, valid))
       ELSE validate_loop_types_first(Tail(rest), Append(validated, PyStr(code_upper)), valid)

\* The for loop of lines 161-171 over the elements still to visit, with the
\* list built so far.
RECURSIVE validate_loop(_, _, _)
validate_loop(rest, validated, valid) ==
  IF Len(rest) = 0 THEN Return(PyList(validated))
  ELSE LET code == Head(rest) IN
       IF code.t # "str"
       THEN Raise("ValueError", "SSR code must be string, got " \o type_name(code))
       ELSE LET code_upper == upper(code.v) IN
            IF code_upper \notin valid
            THEN Raise("ValueError", invalid_code_message(code.v, valid))
            ELSE validate_loop(Tail(rest), Append(validated, PyStr(code_upper)), valid)

\* A slip in lines 154-155: None is not passed through.
validate_ssr_codes_none_rejected(codes, valid) ==
  IF codes.t # "list"
  THEN Raise("ValueError", "SSR codes must be a list, got " \o type_name(codes))
  ELSE validate_loop(codes.v, <<>>, valid)

\* A slip in lines 157-158: anything that can be iterated is accepted.
validate_ssr_codes_any_iterable(codes, valid) ==
  IF codes.t = "none" THEN Return(PyNone)
  ELSE IF ~iterable(codes)
  THEN Raise("TypeError", "'" \o class_name(codes) \o "' object is not iterable")
  ELSE validate_loop(iter_items(codes), <<>>, valid)

\* The argument after the call: lines 160-173 build a new list and assign
\* nothing to codes or to its elements.
codes_after(codes) == codes

validate_ssr_codes(codes, valid) ==
  IF codes.t = "none" THEN Return(PyNone)
  ELSE IF codes.t # "list"
  THEN Raise("ValueError", "SSR codes must be a list, got " \o type_name(codes))
  ELSE validate_loop(codes.v, <<>>, valid)

(***************************************************************************)
(* get_ssr_code_description, helpers.py lines 176-194.                     *)
(***************************************************************************)
\* A slip in line 188: the code is looked up as it was given.
get_ssr_code_description_case_sensitive(code, table, valid) ==
  IF code.t # "str"
  THEN Raise("AttributeError",
             "'" \o class_name(code) \o "' object has no attribute 'upper'")
  ELSE IF code.v \notin valid
  THEN Raise("ValueError", invalid_code_message(code.v, valid))
  ELSE IF has_key(table, code.v) THEN Return(getitem(table, code.v))
  ELSE Raise("KeyError", code.v)

get_ssr_code_description(code, table, valid) ==
  IF code.t # "str"
  THEN Raise("AttributeError",
             "'" \o class_name(code) \o "' object has no attribute 'upper'")
  ELSE LET code_upper == upper(code.v) IN
       IF code_upper \notin valid
       THEN Raise("ValueError", invalid_code_message(code.v, valid))
       ELSE IF has_key(table, code_upper) THEN Return(getitem(table, code_upper))
       ELSE Raise("KeyError", code_upper)

(***************************************************************************)
(* get_all_ssr_codes, helpers.py lines 197-203.                            *)
(***************************************************************************)
\* The outcome carries, next to the mapping returned, whether that mapping
\* is the table object itself: line 203 returns a copy, a new object.
ReturnMapping(d, is_table) == [k |-> "return", val |-> d, is_table |-> is_table]

\* A slip in line 203: the table itself is returned.
get_all_ssr_codes_no_copy(table) == ReturnMapping(table, TRUE)

get_all_ssr_codes(table) == ReturnMapping(PyDict(table.v), FALSE)

\* d[key] = value
setitem(d, key, value) ==
  IF has_key(d, key)
  THEN PyDict([i \in 1..Len(d.v) |-> IF d.v[i][1] = key THEN <<key, value>> ELSE d.v[i]])
  ELSE PyDict(Append(d.v, <<key, value>>))

\* del d[key], for a key d has
delitem(d, key) == PyDict(SelectSeq(d.v, LAMBDA kv : kv[1] # key))

\* A change a caller makes to a mapping it holds.
mutate(d, m) ==
  CASE m.op = "setitem" -> setitem(d, m.key, m.value)
    [] m.op = "delitem" -> delitem(d, m.key)
    [] m.op = "clear" -> PyDict(<<>>)

(***************************************************************************)
(* extract_hotel_accessibility, helpers.py lines 27-48.                    *)
(***************************************************************************)
\* Line 39: the list comprehension over the entries of amenities.
amenity_ids_of(entries) ==
  LET with_id == SelectSeq(entries, LAMBDA a : a.t = "dict" /\ has_key(a, "id"))
  IN [i \in 1..Len(with_id) |-> get(with_id[i], "id", PyNone)]

\* A slip in line 41: the ids compared as text, so that the str "53" counts.
in_amenity_ids_as_text(amenity_ids) ==
  \E i \in 1..Len(amenity_ids) : py_str(amenity_ids[i]) = "53"

\* Line 41: 53 in amenity_ids
in_amenity_ids(amenity_ids) ==
  \E i \in 1..Len(amenity_ids) : py_eq(PyInt(53), amenity_ids[i])

\* A slip in lines 43-48: the amenities handed back are the ones that carry
\* an id instead of the list as it came.
hotel_result_filtered(wheelchair_accessible, amenities) ==
  PyDict(<< <<"wheelchair_accessible", PyBool(wheelchair_accessible)>>,
            <<"accessible_room_available", PyBool(wheelchair_accessible)>>,
            <<"wheelchair_amenity_id", PyInt(53)>>,
            <<"amenities", PyList(SelectSeq(iter_items(amenities),
                                   LAMBDA a : a.t = "dict" /\ has_key(a, "id")))>> >>)

\* Lines 43-48: the mapping returned.
hotel_result(wheelchair_accessible, amenities) ==
  PyDict(<< <<"wheelchair_accessible", PyBool(wheelchair_accessible)>>,
            <<"accessible_room_available", PyBool(wheelchair_accessible)>>,
            <<"wheelchair_amenity_id", PyInt(53)>>,
            <<"amenities", amenities>> >>)

extract_hotel_accessibility(hotel_property) ==
  LET amenities == get(hotel_property, "amenities", PyList(<<>>)) IN
  IF ~iterable(amenities)
  THEN Raise("TypeError", "'" \o class_name(amenities) \o "' object is not iterable")
  ELSE LET amenity_ids == amenity_ids_of(iter_items(amenities))
           wheelchair_accessible == in_amenity_ids(amenity_ids)
       IN Return(hotel_result(wheelchair_accessible, amenities))

(***************************************************************************)
(* extract_amadeus_hotel_accessibility, helpers.py lines 51-94.            *)
(***************************************************************************)
accessibility_keywords ==
  <<"wheelchair", "accessible", "mobility", "elevator", "ramp", "parking", "bathroom">>

\* Lines 69-72: the entry of facility_list built from one facility.
facility_entry(facility) ==
  IF facility.t = "dict"
  THEN get(facility, "description", PyStr(py_str(facility)))
  ELSE PyStr(py_str(facility))

\* A slip in lines 85-88: the facility text matched as it is written.
has_accessibility_case_sensitive(facility_list) ==
  \E i \in 1..Len(facility_list) : \E j \in 1..Len(accessibility_keywords) :
    contains(py_str(facility_list[i]), accessibility_keywords[j])

\* Lines 85-88.
has_accessibility(facility_list) ==
  \E i \in 1..Len(facility_list) : \E j \in 1..Len(accessibility_keywords) :
    contains(lower(py_str(facility_list[i])), lower(accessibility_keywords[j]))

extract_amadeus_hotel_accessibility(hotel_data) ==
  LET facilities == get(hotel_data, "facilities", PyList(<<>>)) IN
  IF truthy(facilities) /\ ~iterable(facilities)
  THEN Raise("TypeError", "'" \o class_name(facilities) \o "' object is not iterable")
  ELSE LET items == IF truthy(facilities) THEN iter_items(facilities) ELSE <<>>
           facility_list == [i \in 1..Len(items) |-> facility_entry(items[i])]
       IN Return(PyDict(<< <<"wheelchair_accessible", PyBool(has_accessibility(facility_list))>>,
                           <<"accessible_room_available", PyBool(has_accessibility(facility_list))>>,
                           <<"facility_list", PyList(facility_list)>> >>))

(***************************************************************************)
(* extract_flight_accessibility_from_amadeus, helpers.py lines 102-134.    *)
(***************************************************************************)
NoError == [k |-> "ok"]

\* Lines 119-123, the inner loop: each detail is asked for .get.
RECURSIVE detail_loop(_)
detail_loop(rest) ==
  IF Len(rest) = 0 THEN NoError
  ELSE IF Head(rest).t # "dict"
  THEN Raise("AttributeError",
             "'" \o class_name(Head(rest)) \o "' object has no attribute 'get'")
  ELSE detail_loop(Tail(rest))

\* Lines 117-123, the outer loop.
RECURSIVE pricing_loop(_)
pricing_loop(rest) ==
  IF Len(rest) = 0 THEN NoError
  ELSE LET pricing == Head(rest) IN
       IF pricing.t # "dict"
       THEN Raise("AttributeError",
                  "'" \o class_name(pricing) \o "' object has no attribute 'get'")
       ELSE LET fare_details == get(pricing, "fareDetailsBySegment", PyList(<<>>)) IN
            IF ~iterable(fare_details)
            THEN Raise("TypeError",
                       "'" \o class_name(fare_details) \o "' object is not iterable")
            ELSE LET inner == detail_loop(iter_items(fare_details)) IN
                 IF inner # NoError THEN inner ELSE pricing_loop(Tail(rest))

extract_flight_accessibility_from_amadeus(flight_offer) ==
  LET ssr_codes == PyList(<<>>)
      traveler_pricings == get(flight_offer, "travelerPricings", PyList(<<>>))
  IN IF ~iterable(traveler_pricings)
     THEN Raise("TypeError",
                "'" \o class_name(traveler_pricings) \o "' object is not iterable")
     ELSE LET loop == pricing_loop(iter_items(traveler_pricings)) IN
          IF loop # NoError THEN loop
          ELSE Return(PyDict(<<
                 <<"wheelchair_available", PyBool(FALSE)>>,
                 <<"wheelchair_stowage", PyBool(FALSE)>>,
                 <<"accessible_lavatory", PyBool(FALSE)>>,
                 <<"extra_legroom_available", PyBool(FALSE)>>,
                 <<"special_service_codes", IF truthy(ssr_codes) THEN ssr_codes ELSE PyNone>>,
                 <<"companion_required", PyNone>>,
                 <<"special_meals_available", PyBool(FALSE)>>,
                 <<"notes", PyStr("Check with airline for specific accessibility accommodations")>> >>))

(***************************************************************************)
(* The record shapes, models.py lines 7-119: the declared fields of each   *)
(* class in declaration order, with the type and the default of Field().   *)
(***************************************************************************)
Field(name, type, default) == [name |-> name, type |-> type, default |-> default]

\* A slip in lines 38-41: notes defaults to the empty string.
FlightAccessibility_notes_empty ==
  << Field("wheelchair_available", "bool", PyBool(FALSE)),
     Field("wheelchair_stowage", "bool", PyBool(FALSE)),
     Field("accessible_lavatory", "bool", PyBool(FALSE)),
     Field("extra_legroom_available", "bool", PyBool(FALSE)),
     Field("special_service_codes", "Optional[List[str]]", PyNone),
     Field("companion_required", "Optional[bool]", PyNone),
     Field("special_meals_available", "bool", PyBool(FALSE)),
     Field("notes", "Optional[str]", PyStr("")) >>

FlightAccessibility ==
  << Field("wheelchair_available", "bool", PyBool(FALSE)),
     Field("wheelchair_stowage", "bool", PyBool(FALSE)),
     Field("accessible_lavatory", "bool", PyBool(FALSE)),
     Field("extra_legroom_available", "bool", PyBool(FALSE)),
     Field("special_service_codes", "Optional[List[str]]", PyNone),
     Field("companion_required", "Optional[bool]", PyNone),
     Field("special_meals_available", "bool", PyBool(FALSE)),
     Field("notes", "Optional[str]", PyNone) >>

HotelAccessibility ==
  << Field("wheelchair_accessible", "bool", PyBool(FALSE)),
     Field("accessible_room_available", "bool", PyBool(FALSE)),
     Field("wheelchair_amenity_id", "int", PyInt(53)),
     Field("accessible_bathroom_types", "Optional[List[str]]", PyNone),
     Field("accessible_parking", "bool", PyBool(FALSE)),
     Field("accessible_entrance", "bool", PyBool(FALSE)),
     Field("accessible_elevator", "bool", PyBool(FALSE)),
     Field("service_animals_allowed", "bool", PyBool(FALSE)),
     Field("lowest_accessible_price", "Optional[float]", PyNone),
     Field("facility_list", "Optional[List[str]]", PyNone) >>

AccessibilityRequest ==
  << Field("wheelchair_user", "bool", PyBool(FALSE)),
     Field("reduced_mobility", "bool", PyBool(FALSE)),
     Field("deaf", "bool", PyBool(FALSE)),
     Field("blind", "bool", PyBool(FALSE)),
     Field("stretcher_case", "bool", PyBool(FALSE)),
     Field("companion_required", "bool", PyBool(FALSE)),
     Field("special_requirements", "Optional[str]", PyNone) >>

ModelClasses == {"FlightAccessibility", "HotelAccessibility", "AccessibilityRequest"}

fields_of(cls) ==
  CASE cls = "FlightAccessibility" -> FlightAccessibility
    [] cls = "HotelAccessibility" -> HotelAccessibility
    [] cls = "AccessibilityRequest" -> AccessibilityRequest

\* Whether a supplied value is of the annotated type of the field.
conforms(x, type) ==
  CASE type = "bool" -> x.t = "bool"
    [] type = "int" -> x.t = "int"
    [] type = "Optional[bool]" -> x.t \in {"none", "bool"}
    [] type = "Optional[str]" -> x.t \in {"none", "str"}
    [] type = "Optional[float]" -> x.t \in {"none", "int"}
    [] type = "Optional[List[str]]" ->
         x.t = "none" \/ (x.t = "list" /\ \A i \in 1..Len(x.v) : x.v[i].t = "str")

\* cls(**data): every declared field takes the value supplied for it, else
\* its default; a supplied value of another type is a validation error.
construct(cls, data) ==
  LET fields == fields_of(cls) IN
  IF \E i \in 1..Len(fields) :
       has_key(data, fields[i].name)
         /\ ~conforms(getitem(data, fields[i].name), fields[i].type)
  THEN Raise("ValidationError", "1 validation error for " \o cls)
  ELSE Return(PyDict([i \in 1..Len(fields) |->
                        <<fields[i].name, get(data, fields[i].name, fields[i].default)>>]))

\* record.name = value: the classes declare no frozen configuration and no
\* validation on assignment, so the field takes the value.
setattr(record, name, value) ==
  PyDict([i \in 1..Len(record.v) |->
            IF record.v[i][1] = name THEN <<name, value>> ELSE record.v[i]])

(***************************************************************************)
(* Inputs.                                                                 *)
(***************************************************************************)
\* Every letter-case variant of s.
RECURSIVE CaseVariants(_)
CaseVariants(s) ==
  IF Len(s) = 0 THEN {""}
  ELSE {c \o r : c \in {Ch(s, 1), lower_char(Ch(s, 1))}, r \in CaseVariants(Tail(s))}

SixCodes == {"WCHR", "WCHS", "STCR", "DEAF", "BLND", "PRMK"}
NonMemberStrs == {"XYZ", "wch", "", "WCHRS", "INVALID", "wchr ", "deaf,blnd"}
DescribeInputs ==
  {PyStr(s) : s \in UNION {CaseVariants(c) : c \in SixCodes}}
    \cup {PyStr(s) : s \in NonMemberStrs}
    \cup {PyNone, PyInt(123)}

CodeElems ==
  {PyStr(s) : s \in {"WCHR", "wchr", "Wchs", "STCR", "XYZ", "wch"}}
    \cup {PyInt(123), PyNone}
ValidateInputs ==
  {PyList(q) : q \in SeqUpTo(CodeElems, MaxCodes)}
    \cup {PyList(<<PyStr("WCHR"), PyStr("WCHS"), PyStr("STCR"),
                   PyStr("DEAF"), PyStr("BLND"), PyStr("PRMK")>>),
          PyList(<<PyStr("deaf"), PyStr("Blnd"), PyStr("prmK"), PyStr("deaf")>>),
          PyList(<<PyStr("deaf"), PyStr("INVALID"), PyStr("prmk")>>)}
    \cup {PyNone, PyStr("WCHR"), PyInt(123), PyTuple(<<PyStr("WCHR")>>),
          PyDict(<< <<"WCHR", PyBool(TRUE)>> >>)}

\* A vendor mapping: empty, or a name and the field under test when it is
\* present.
Mapping(name, field, values) ==
  {PyDict(<<>>), PyDict(<< <<"name", PyStr(name)>> >>)}
    \cup {PyDict(<< <<"name", PyStr(name)>>, <<field, x>> >>) : x \in values}

AmenityEntries ==
  {PyDict(<< <<"id", PyInt(53)>>, <<"name", PyStr("Wheelchair accessible")>> >>),
   PyDict(<< <<"id", PyInt(1)>>, <<"name", PyStr("WiFi")>> >>),
   PyDict(<< <<"name", PyStr("Wheelchair accessible")>> >>),
   PyDict(<< <<"id", PyStr("53")>> >>),
   PyDict(<< <<"id", PyNone>> >>),
   PyInt(53), PyStr("53"), PyNone}
AmenitiesValues ==
  {PyList(q) : q \in SeqUpTo(AmenityEntries, MaxAmenities)}
    \cup {PyNone, PyInt(53), PyStr("53"), PyDict(<< <<"id", PyInt(53)>> >>)}
HotelInputs == Mapping("Simple Hotel", "amenities", AmenitiesValues)

FacilityEntries ==
  {PyDict(<< <<"description", PyStr("Ramp at entrance")>> >>),
   PyDict(<< <<"description", PyStr("WiFi")>> >>),
   PyDict(<< <<"description", PyStr("NO PARKING")>> >>),
   PyDict(<< <<"description", PyNone>> >>),
   PyDict(<< <<"description", PyList(<<PyStr("Elevator")>>)>> >>),
   PyDict(<< <<"name", PyStr("Mobility aids")>> >>),
   PyStr("accessible BATHROOM"), PyStr("Restaurant"), PyNone}
FacilitiesValues ==
  {PyList(q) : q \in SeqUpTo(FacilityEntries, MaxFacilities)}
    \cup {PyNone, PyInt(0), PyInt(5), PyStr(""), PyStr("ramp"), PyBool(TRUE),
          PyDict(<< <<"parking", PyBool(TRUE)>> >>)}
AmadeusHotelInputs == Mapping("Simple Hotel", "facilities", FacilitiesValues)

FareDetailsValues ==
  {PyList(<<>>),
   PyList(<<PyDict(<<>>)>>),
   PyList(<<PyDict(<< <<"includedCheckedBags", PyDict(<< <<"quantity", PyInt(1)>> >>)>> >>)>>),
   PyList(<<PyDict(<< <<"includedCheckedBags", PyNone>> >>), PyDict(<<>>)>>),
   PyList(<<PyDict(<<>>), PyInt(1)>>),
   PyNone}
PricingEntries ==
  {PyDict(<< <<"fareDetailsBySegment", x>> >>) : x \in FareDetailsValues}
    \cup {PyDict(<<>>),
          PyDict(<< <<"specialServiceCodes", PyList(<<PyStr("WCHR")>>)>> >>),
          PyNone, PyStr("WCHR")}
TravelerPricingsValues ==
  {PyList(q) : q \in SeqUpTo(PricingEntries, MaxPricings)}
    \cup {PyNone, PyInt(1), PyStr(""), PyStr("x"), PyDict(<<>>),
          PyDict(<< <<"fareDetailsBySegment", PyList(<<>>)>> >>)}
FlightInputs == Mapping("1", "travelerPricings", TravelerPricingsValues)

\* Keyword arguments of a constructor: up to MaxSupplied fields, each once.
SuppliedFields(cls) ==
  CASE cls = "FlightAccessibility" ->
         {<<"wheelchair_available", PyBool(TRUE)>>,
          <<"special_service_codes", PyList(<<PyStr("WCHR"), PyStr("WCHS")>>)>>,
          <<"companion_required", PyBool(FALSE)>>,
          <<"notes", PyStr("Fully accessible economy seat with aisle chair")>>,
          <<"wheelchair_stowage", PyNone>>}
    [] cls = "HotelAccessibility" ->
         {<<"wheelchair_accessible", PyBool(TRUE)>>,
          <<"wheelchair_amenity_id", PyInt(53)>>,
          <<"wheelchair_amenity_id", PyInt(7)>>,
          <<"facility_list", PyList(<<PyStr("Accessible rooms")>>)>>,
          <<"accessible_bathroom_types", PyStr("grab bars")>>}
    [] cls = "AccessibilityRequest" ->
         {<<"wheelchair_user", PyBool(TRUE)>>,
          <<"deaf", PyBool(TRUE)>>,
          <<"special_requirements", PyStr("Needs Braille materials")>>,
          <<"blind", PyNone>>}
ConstructInputs(cls) ==
  {PyDict(q) : q \in {r \in SeqUpTo(SuppliedFields(cls), MaxSupplied) :
                        \A i, j \in 1..Len(r) : i # j => r[i][1] # r[j][1]}}

\* The changes a caller makes to the mapping get_all_ssr_codes returned.
Mutations ==
  {[op |-> "setitem", key |-> "WCHR", value |-> PyStr("changed")],
   [op |-> "setitem", key |-> "XXXX", value |-> PyStr("Not a code")],
   [op |-> "delitem", key |-> "WCHS", value |-> PyNone],
   [op |-> "clear", key |-> "", value |-> PyNone]}

\* The assignments a holder of a record makes.
AssignedFields(cls) ==
  CASE cls = "FlightAccessibility" ->
         {<<"wheelchair_available", PyBool(TRUE)>>, <<"notes", PyStr("changed")>>}
    [] cls = "HotelAccessibility" ->
         {<<"wheelchair_accessible", PyBool(TRUE)>>, <<"wheelchair_amenity_id", PyInt(7)>>}
    [] cls = "AccessibilityRequest" ->
         {<<"wheelchair_user", PyBool(TRUE)>>, <<"special_requirements", PyNone>>}

(***************************************************************************)
(* The state machine: a caller makes one call after another.  Every call   *)
(* is synchronous: it runs to its return or raise before the caller takes  *)
(* the outcome and goes on to the next call.                               *)
(***************************************************************************)
NoCall == [fn |-> "none", arg |-> PyNone]
Idle == call = NoCall

Init ==
  /\ SSR_CODE_DESCRIPTIONS = InitialDescriptions
  /\ VALID_SSR_CODES = Range(keys(InitialDescriptions))
  /\ call = NoCall
  /\ result = Return(PyNone)

CallValidate ==
  \E codes \in ValidateInputs :
    /\ Idle
    /\ call' = [fn |-> "validate_ssr_codes", arg |-> codes, after |-> codes_after(codes)]
    /\ result' = validate_ssr_codes(codes, VALID_SSR_CODES)
    /\ UNCHANGED <<SSR_CODE_DESCRIPTIONS, VALID_SSR_CODES>>

CallDescribe ==
  \E code \in DescribeInputs :
    /\ Idle
    /\ call' = [fn |-> "get_ssr_code_description", arg |-> code]
    /\ result' = get_ssr_code_description(code, SSR_CODE_DESCRIPTIONS, VALID_SSR_CODES)
    /\ UNCHANGED <<SSR_CODE_DESCRIPTIONS, VALID_SSR_CODES>>

CallGetAll ==
  /\ Idle
  /\ call' = [fn |-> "get_all_ssr_codes", arg |-> PyNone]
  /\ result' = get_all_ssr_codes(SSR_CODE_DESCRIPTIONS)
  /\ UNCHANGED <<SSR_CODE_DESCRIPTIONS, VALID_SSR_CODES>>

CallExtractHotel ==
  \E hotel_property \in HotelInputs :
    /\ Idle
    /\ call' = [fn |-> "extract_hotel_accessibility", arg |-> hotel_property]
    /\ result' = extract_hotel_accessibility(hotel_property)
    /\ UNCHANGED <<SSR_CODE_DESCRIPTIONS, VALID_SSR_CODES>>

CallExtractAmadeusHotel ==
  \E hotel_data \in AmadeusHotelInputs :
    /\ Idle
    /\ call' = [fn |-> "extract_amadeus_hotel_accessibility", arg |-> hotel_data]
    /\ result' = extract_amadeus_hotel_accessibility(hotel_data)
    /\ UNCHANGED <<SSR_CODE_DESCRIPTIONS, VALID_SSR_CODES>>

CallExtractFlight ==
  \E flight_offer \in FlightInputs :
    /\ Idle
    /\ call' = [fn |-> "extract_flight_accessibility_from_amadeus", arg |-> flight_offer]
    /\ result' = extract_flight_accessibility_from_amadeus(flight_offer)
    /\ UNCHANGED <<SSR_CODE_DESCRIPTIONS, VALID_SSR_CODES>>

\* The caller changes the mapping get_all_ssr_codes returned; the change
\* reaches the table only if the mapping is the table object.
MutateReturned ==
  /\ call.fn = "get_all_ssr_codes"
  /\ \E m \in Mutations :
       /\ m.op = "delitem" => has_key(result.val, m.key)
       /\ result' = [result EXCEPT !.val = mutate(result.val, m)]
       /\ SSR_CODE_DESCRIPTIONS' =
            IF result.is_table THEN mutate(SSR_CODE_DESCRIPTIONS, m)
            ELSE SSR_CODE_DESCRIPTIONS
  /\ UNCHANGED <<VALID_SSR_CODES, call>>

\* cls(**data) for one of the three record classes.
CallConstruct ==
  \E cls \in ModelClasses : \E data \in ConstructInputs(cls) :
    /\ Idle
    /\ call' = [fn |-> cls, arg |-> data]
    /\ result' = construct(cls, data)
    /\ UNCHANGED <<SSR_CODE_DESCRIPTIONS, VALID_SSR_CODES>>

\* The record the caller holds: built by the constructor, or left by an
\* earlier assignment.
RecordClass ==
  IF call.fn \in ModelClasses THEN call.fn
  ELSE IF call.fn = "__setattr__" THEN call.cls
  ELSE "none"
HoldsRecord == RecordClass \in ModelClasses /\ result.k = "return"

\* record.name = value on the record the caller holds.
AssignField ==
  /\ HoldsRecord
  /\ \E nv \in AssignedFields(RecordClass) :
       /\ call' = [fn |-> "__setattr__", cls |-> RecordClass,
                   arg |-> PyTuple(<<PyStr(nv[1]), nv[2]>>)]
       /\ result' = Return(setattr(result.val, nv[1], nv[2]))
  /\ UNCHANGED <<SSR_CODE_DESCRIPTIONS, VALID_SSR_CODES>>

\* The caller takes the outcome of the call that ended.
TakeOutcome ==
  /\ ~Idle
  /\ call' = NoCall
  /\ result' = Return(PyNone)
  /\ UNCHANGED <<SSR_CODE_DESCRIPTIONS, VALID_SSR_CODES>>

Next ==
  \/ CallValidate
  \/ CallDescribe
  \/ CallGetAll
  \/ CallExtractHotel
  \/ CallExtractAmadeusHotel
  \/ CallExtractFlight
  \/ MutateReturned
  \/ CallConstruct
  \/ AssignField
  \/ TakeOutcome

Spec == Init /\ [][Next]_vars

(***************************************************************************)
(* Properties.                                                             *)
(***************************************************************************)
Returned == result.k = "return"
Raised == result.k = "raise"

starts_with(s, prefix) == Len(s) >= Len(prefix) /\ SubSeq(s, 1, Len(prefix)) = prefix

\* The error kind of an outcome: both kinds are raised as ValueError and
\* differ by the raise statement (lines 158 and 163, lines 167 and 190).
ErrorKind(r) ==
  IF r.k # "raise" THEN "none"
  ELSE IF r.exc = "ValueError" /\ (\/ starts_with(r.msg, "SSR codes must be a list, got ")
                                   \/ starts_with(r.msg, "SSR code must be string, got "))
  THEN "InvalidInput"
  ELSE IF r.exc = "ValueError" /\ starts_with(r.msg, "Invalid SSR code '")
  THEN "UnknownCode"
  ELSE "other"

IsValidCode(x) == x.t = "str" /\ \E c \in SixCodes : x.v \in CaseVariants(c)
IsNonMember(x) == x.t = "str" /\ ~IsValidCode(x)
ValidateCalled == call.fn = "validate_ssr_codes"
DescribeCalled == call.fn = "get_ssr_code_description"
\* Element i is the first element of the list that is not a valid code.
FirstOffender(codes, i) == ~IsValidCode(codes.v[i]) /\ \A j \in 1..(i - 1) : IsValidCode(codes.v[j])

UnknownCodeMessage(code) ==
  "Invalid SSR code '" \o code \o "'. Valid codes: BLND, DEAF, PRMK, STCR, WCHR, WCHS"

\* C1: a list of valid codes in any letter case validates to the list of the
\* same length whose i-th element is the uppercased i-th input element.
C1_ValidListUppercased ==
  (ValidateCalled /\ call.arg.t = "list" /\ \A i \in 1..Len(call.arg.v) : IsValidCode(call.arg.v[i]))
    => /\ Returned
       /\ result.val.t = "list"
       /\ Len(result.val.v) = Len(call.arg.v)
       /\ \A i \in 1..Len(call.arg.v) :
            /\ result.val.v[i].t = "str"
            /\ result.val.v[i].v \in SixCodes
            /\ call.arg.v[i].v \in CaseVariants(result.val.v[i].v)

C1_Witness ==
  /\ ValidateCalled
  /\ call.arg = PyList(<<PyStr("wchr"), PyStr("STCR"), PyStr("wchr")>>)
  /\ result = Return(PyList(<<PyStr("WCHR"), PyStr("STCR"), PyStr("WCHR")>>))

\* C2 as stated: whenever the list given to validate_ssr_codes contains a
\* non-member code, or get_ssr_code_description is given one, the call fails
\* with UnknownCode and the message names that code and lists the six valid
\* codes sorted.
C2_AnyListWithNonMember ==
  /\ (ValidateCalled /\ call.arg.t = "list")
       => \A i \in 1..Len(call.arg.v) :
            IsNonMember(call.arg.v[i])
              => /\ ErrorKind(result) = "UnknownCode"
                 /\ result.msg = UnknownCodeMessage(call.arg.v[i].v)
  /\ (DescribeCalled /\ IsNonMember(call.arg))
       => /\ ErrorKind(result) = "UnknownCode"
          /\ result.msg = UnknownCodeMessage(call.arg.v)

\* C2 amended: the same, for a list whose first element that is not a valid
\* code is the non-member code.
C2_FirstOffenderNonMember ==
  /\ (ValidateCalled /\ call.arg.t = "list")
       => \A i \in 1..Len(call.arg.v) :
            (IsNonMember(call.arg.v[i]) /\ FirstOffender(call.arg, i))
              => /\ ErrorKind(result) = "UnknownCode"
                 /\ result.msg = UnknownCodeMessage(call.arg.v[i].v)
  /\ (DescribeCalled /\ IsNonMember(call.arg))
       => /\ ErrorKind(result) = "UnknownCode"
          /\ result.msg = UnknownCodeMessage(call.arg.v)

C2_Witness ==
  /\ ValidateCalled
  /\ call.arg = PyList(<<PyStr("WCHR"), PyStr("wch"), PyInt(123)>>)
  /\ result = Raise("ValueError",
                    "Invalid SSR code 'wch'. Valid codes: BLND, DEAF, PRMK, STCR, WCHR, WCHS")

\* C3 as stated: an input that is present and is not a list, or is a list
\* with a non-string element, fails with InvalidInput.
C3_AnyNonStringInvalidInput ==
  (ValidateCalled /\ call.arg.t # "none"
     /\ (call.arg.t # "list" \/ \E i \in 1..Len(call.arg.v) : call.arg.v[i].t # "str"))
    => ErrorKind(result) = "InvalidInput"

\* C3 amended: an input that is present and is not a list, or is a list
\* whose first element that is not a valid code is a non-string, fails with
\* InvalidInput; a list with a non-string element always fails, with
\* UnknownCode when a non-member string comes before the first non-string.
C3_FirstOffenderNonString ==
  /\ (ValidateCalled /\ call.arg.t \notin {"none", "list"})
       => ErrorKind(result) = "InvalidInput"
  /\ (ValidateCalled /\ call.arg.t = "list")
       => \A i \in 1..Len(call.arg.v) :
            call.arg.v[i].t # "str"
              => /\ FirstOffender(call.arg, i) => ErrorKind(result) = "InvalidInput"
                 /\ ~(\A j \in 1..(i - 1) : IsValidCode(call.arg.v[j]))
                      => ErrorKind(result) \in {"InvalidInput", "UnknownCode"}
                 /\ (\E j \in 1..(i - 1) : IsNonMember(call.arg.v[j])
                       /\ \A h \in 1..(j - 1) : IsValidCode(call.arg.v[h]))
                      => ErrorKind(result) = "UnknownCode"

C3_Witness ==
  /\ ValidateCalled
  /\ call.arg = PyList(<<PyStr("wchr"), PyInt(123), PyStr("XYZ")>>)
  /\ result = Raise("ValueError", "SSR code must be string, got <class 'int'>")

\* C4: validate_ssr_codes(None) returns None and raises nothing.
C4_NonePassedThrough ==
  (ValidateCalled /\ call.arg = PyNone) => result = Return(PyNone)

C4_Witness == ValidateCalled /\ call.arg = PyNone /\ result = Return(PyNone)

\* C5: for every letter-case variant of a valid code,
\* get_ssr_code_description returns the description the table holds for the
\* uppercase code.
C5_DescribeCaseInsensitive ==
  DescribeCalled
    => \A c \in SixCodes :
         (call.arg.t = "str" /\ call.arg.v \in CaseVariants(c))
           => result = Return(getitem(InitialDescriptions, c))

C5_Witness ==
  /\ DescribeCalled
  /\ call.arg = PyStr("bLnD")
  /\ result = Return(PyStr("Blind passenger (audio assistance, guide dog accommodation)"))

ExtractorCalled ==
  call.fn \in {"extract_hotel_accessibility", "extract_amadeus_hotel_accessibility",
               "extract_flight_accessibility_from_amadeus"}

\* C6: the three extraction functions return a result and raise no error for
\* every input mapping, whatever its nested fields hold.
C6_ExtractorsNeverFail == ExtractorCalled => Returned

FlightCalled == call.fn = "extract_flight_accessibility_from_amadeus"

FixedFlightRecord ==
  PyDict(<< <<"wheelchair_available", PyBool(FALSE)>>,
            <<"wheelchair_stowage", PyBool(FALSE)>>,
            <<"accessible_lavatory", PyBool(FALSE)>>,
            <<"extra_legroom_available", PyBool(FALSE)>>,
            <<"special_service_codes", PyNone>>,
            <<"companion_required", PyNone>>,
            <<"special_meals_available", PyBool(FALSE)>>,
            <<"notes", PyStr("Check with airline for specific accessibility accommodations")>> >>)

\* C7: extract_flight_accessibility_from_amadeus returns the same fixed
\* record for any input mapping, whatever travelerPricings holds.
C7_FlightFixedRecord == FlightCalled => result = Return(FixedFlightRecord)

HotelCalled == call.fn = "extract_hotel_accessibility"
\* The amenities field is absent or is a list, of entries of any kind.
AmenitiesAbsentOrList ==
  has_key(call.arg, "amenities") => getitem(call.arg, "amenities").t = "list"
\* An entry of the amenities list is a mapping whose "id" is 53.
SentinelAmongIds ==
  /\ has_key(call.arg, "amenities")
  /\ \E i \in 1..Len(getitem(call.arg, "amenities").v) :
       LET a == getitem(call.arg, "amenities").v[i]
       IN a.t = "dict" /\ has_key(a, "id") /\ getitem(a, "id") = PyInt(53)

\* C8: extract_hotel_accessibility sets wheelchair_accessible to true iff 53
\* is among the "id" values of the amenities entries that are mappings with
\* an "id" key (an absent or empty amenities field gives false), and
\* accessible_room_available equals wheelchair_accessible.
C8_HotelFlagIffSentinel ==
  (HotelCalled /\ AmenitiesAbsentOrList)
    => /\ Returned
       /\ getitem(result.val, "wheelchair_accessible") = PyBool(SentinelAmongIds)
       /\ getitem(result.val, "accessible_room_available")
            = getitem(result.val, "wheelchair_accessible")

C8_Witness ==
  /\ HotelCalled
  /\ has_key(call.arg, "amenities")
  /\ getitem(call.arg, "amenities")
       = PyList(<<PyInt(53),
                  PyDict(<< <<"name", PyStr("Wheelchair accessible")>> >>),
                  PyDict(<< <<"id", PyInt(53)>>, <<"name", PyStr("Wheelchair accessible")>> >>)>>)
  /\ Returned
  /\ getitem(result.val, "wheelchair_accessible") = PyBool(TRUE)

\* C9: the mapping extract_hotel_accessibility returns holds
\* wheelchair_amenity_id = 53 and, under "amenities", the input's amenities
\* value unchanged, the empty list when the input has no amenities field.
C9_HotelAmenitiesVerbatim ==
  HotelCalled
    => /\ AmenitiesAbsentOrList => Returned
       /\ Returned
            => /\ has_key(result.val, "wheelchair_amenity_id")
               /\ getitem(result.val, "wheelchair_amenity_id") = PyInt(53)
               /\ has_key(result.val, "amenities")
               /\ getitem(result.val, "amenities")
                    = (IF has_key(call.arg, "amenities")
                       THEN getitem(call.arg, "amenities")
                       ELSE PyList(<<>>))

C9_Witness ==
  /\ HotelCalled
  /\ has_key(call.arg, "amenities")
  /\ Returned
  /\ getitem(result.val, "amenities")
       = PyList(<<PyNone, PyDict(<< <<"id", PyInt(1)>>, <<"name", PyStr("WiFi")>> >>), PyStr("53")>>)

AmadeusHotelCalled == call.fn = "extract_amadeus_hotel_accessibility"
FacilitiesAbsentOrList ==
  has_key(call.arg, "facilities") => getitem(call.arg, "facilities").t = "list"
Keywords == {"wheelchair", "accessible", "mobility", "elevator", "ramp", "parking", "bathroom"}
\* An entry of the facility_list returned contains a keyword, in any case.
SomeEntryHasKeyword ==
  \E i \in 1..Len(getitem(result.val, "facility_list").v) : \E kw \in Keywords :
    contains(lower(py_str(getitem(result.val, "facility_list").v[i])), kw)

\* C10: extract_amadeus_hotel_accessibility sets wheelchair_accessible to
\* true iff an entry of the facility_list it built contains one of the seven
\* keywords as a case-insensitive substring; accessible_room_available
\* equals wheelchair_accessible; with no facilities field the flag is false.
C10_AmadeusFlagIffKeyword ==
  AmadeusHotelCalled
    => /\ FacilitiesAbsentOrList => Returned
       /\ Returned
            => /\ getitem(result.val, "wheelchair_accessible") = PyBool(SomeEntryHasKeyword)
               /\ getitem(result.val, "accessible_room_available")
                    = getitem(result.val, "wheelchair_accessible")
               /\ ~has_key(call.arg, "facilities")
                    => getitem(result.val, "wheelchair_accessible") = PyBool(FALSE)

C10_Witness ==
  /\ AmadeusHotelCalled
  /\ Returned
  /\ getitem(result.val, "facility_list") = PyList(<<PyStr("Restaurant"), PyStr("NO PARKING")>>)
  /\ getitem(result.val, "wheelchair_accessible") = PyBool(TRUE)

\* The entry the facility at position i of the input gives: its
\* "description" value, or its text when it is not a mapping or has none.
ExpectedEntry(facility) ==
  IF facility.t = "dict" /\ has_key(facility, "description")
  THEN getitem(facility, "description")
  ELSE PyStr(py_str(facility))

\* C11: the facility_list extract_amadeus_hotel_accessibility returns is
\* never null and is a flat list of strings: empty when the input has no or
\* an empty facilities field, otherwise one entry per facility in input
\* order, each entry a string.
C11_FacilityListOfStrings ==
  (AmadeusHotelCalled /\ FacilitiesAbsentOrList)
    => /\ Returned
       /\ has_key(result.val, "facility_list")
       /\ getitem(result.val, "facility_list").t = "list"
       /\ LET facilities == get(call.arg, "facilities", PyList(<<>>)).v
              facility_list == getitem(result.val, "facility_list").v
          IN /\ Len(facility_list) = Len(facilities)
             /\ \A i \in 1..Len(facilities) :
                  /\ facility_list[i] = ExpectedEntry(facilities[i])
                  /\ facility_list[i].t = "str"

\* C12: no record changes after construction: between two states in which
\* the caller holds a record, no field of it has another value.
C12_RecordsNeverMutate ==
  [][(HoldsRecord /\ HoldsRecord') => result'.val = result.val]_vars

HotelRecordBuilt == call.fn = "HotelAccessibility" /\ result.k = "return"

\* C13: in every HotelAccessibility record, built with or without
\* caller-supplied field values, wheelchair_amenity_id equals 53.
C13_AmenityIdAlways53 ==
  HotelRecordBuilt => getitem(result.val, "wheelchair_amenity_id") = PyInt(53)

BuiltWithNoInput == call.fn \in ModelClasses /\ call.arg = PyDict(<<>>)

\* C14 as stated: each record class can be constructed with no input, and
\* every field of the record is then false or None.
C14_AllDefaultsFalseOrNone ==
  BuiltWithNoInput
    => /\ result.k = "return"
       /\ \A i \in 1..Len(result.val.v) : result.val.v[i][2] \in {PyBool(FALSE), PyNone}

\* C14 amended: each record class can be constructed with no input, and
\* every field of the record is then false or None, except
\* wheelchair_amenity_id of HotelAccessibility, which is 53.
C14_DefaultsFalseOrNoneOrSentinel ==
  BuiltWithNoInput
    => /\ result.k = "return"
       /\ Len(result.val.v) = Len(fields_of(call.fn))
       /\ \A i \in 1..Len(result.val.v) :
            /\ result.val.v[i][1] = fields_of(call.fn)[i].name
            /\ IF call.fn = "HotelAccessibility" /\ result.val.v[i][1] = "wheelchair_amenity_id"
               THEN result.val.v[i][2] = PyInt(53)
               ELSE result.val.v[i][2] \in {PyBool(FALSE), PyNone}

C14_Witness ==
  /\ call = [fn |-> "HotelAccessibility", arg |-> PyDict(<<>>)]
  /\ result.k = "return"
  /\ getitem(result.val, "wheelchair_amenity_id") = PyInt(53)
  /\ getitem(result.val, "facility_list") = PyNone

\* C15: after any sequence of calls, and after any change a caller makes to
\* a mapping get_all_ssr_codes returned, the code table holds exactly the six
\* codes with their original descriptions and the valid-code set is the
\* table's key set.
C15_TablesReadOnly ==
  /\ Range(keys(SSR_CODE_DESCRIPTIONS)) = {"WCHR", "WCHS", "STCR", "DEAF", "BLND", "PRMK"}
  /\ Len(SSR_CODE_DESCRIPTIONS.v) = 6
  /\ SSR_CODE_DESCRIPTIONS = InitialDescriptions
  /\ VALID_SSR_CODES = Range(keys(SSR_CODE_DESCRIPTIONS))

C15_Witness ==
  /\ call.fn = "get_all_ssr_codes"
  /\ result.val = PyDict(<< <<"XXXX", PyStr("Not a code")>>, <<"WCHR", PyStr("changed")>> >>)
  /\ SSR_CODE_DESCRIPTIONS = InitialDescriptions

\* C16: validate_ssr_codes is fail-fast in element order: the error is the
\* one of the first offending element (InvalidInput for a non-string,
\* UnknownCode naming it for a non-member string), the elements after it have
\* no part in the outcome, no list of validated codes is returned, and the
\* input list is as it was.
C16_FailFastInOrder ==
  (ValidateCalled /\ call.arg.t = "list")
    => \A i \in 1..Len(call.arg.v) :
         FirstOffender(call.arg, i)
           => /\ result.k = "raise"
              /\ call.arg.v[i].t # "str" => ErrorKind(result) = "InvalidInput"
              /\ call.arg.v[i].t = "str"
                   => /\ ErrorKind(result) = "UnknownCode"
                      /\ result.msg = UnknownCodeMessage(call.arg.v[i].v)
              /\ result = validate_ssr_codes(PyList(SubSeq(call.arg.v, 1, i)), VALID_SSR_CODES)
              /\ call.after = call.arg

C16_Witness ==
  /\ ValidateCalled
  /\ call.arg = PyList(<<PyStr("XYZ"), PyInt(123), PyStr("wch")>>)
  /\ call.after = call.arg
  /\ result = Raise("ValueError",
                    "Invalid SSR code 'XYZ'. Valid codes: BLND, DEAF, PRMK, STCR, WCHR, WCHS")

====
